---- MODULE Spec2Model ----
(***************************************************************************)
(* Requirement & selection engine of app-torque.py: the valve and actuator *)
(* catalogs, calculate_valve_torque_thrust and find_suitable_actuators.    *)
(*                                                                         *)
(* Python floats are modelled by rationals <<n, d>> (d > 0, lowest terms). *)
(* The selector's arithmetic is exact.  In the calculator, torques and     *)
(* forces are carried in hundredths of their unit, rounded down; with the  *)
(* pressures and temperatures offered here no rounding occurs in the       *)
(* Ball / Plug formula.  The irrational quantities of the source (math.pi  *)
(* in the areas, size ** 1.5) are correct to three or four digits.         *)
(***************************************************************************)
EXTENDS Integers, Sequences, FiniteSets, TLC

\* ------------------------------------------------------------------------
\* Exact rational arithmetic standing for float arithmetic
\* ------------------------------------------------------------------------
Abs(x) == IF x < 0 THEN -x ELSE x

RECURSIVE GCD(_, _)
GCD(a, b) == IF b = 0 THEN a ELSE GCD(b, a % b)

Norm(n, d) ==
    LET s == IF d < 0 THEN -1 ELSE 1
        g == GCD(Abs(n), Abs(d))
    IN  IF n = 0 THEN <<0, 1>> ELSE <<(s * n) \div g, (s * d) \div g>>

R(i) == <<i, 1>>

\* product, cancelling across the factors before multiplying
RMul(x, y) ==
    LET g1 == GCD(Abs(x[1]), y[2])
        g2 == GCD(Abs(y[1]), x[2])
    IN  IF x[1] = 0 \/ y[1] = 0 THEN <<0, 1>>
        ELSE Norm((x[1] \div g1) * (y[1] \div g2), (x[2] \div g2) * (y[2] \div g1))

RAdd(x, y) ==
    LET g == GCD(x[2], y[2])
    IN  Norm(x[1] * (y[2] \div g) + y[1] * (x[2] \div g), (x[2] \div g) * y[2])

RSub(x, y) == RAdd(x, <<-y[1], y[2]>>)

\* x / y for y # 0
RDiv(x, y) == RMul(x, IF y[1] < 0 THEN <<-y[2], -y[1]>> ELSE <<y[2], y[1]>>)

RLeq(x, y) == x[1] * y[2] <= y[1] * x[2]
RGeq(x, y) == RLeq(y, x)
RIsZero(x) == x[1] = 0

\* ------------------------------------------------------------------------
\* Constant tables
\* ------------------------------------------------------------------------
VALVE_TYPES == [Ball      |-> [torque_type |-> "Rotary", thrust_type |-> "None"],
                Butterfly |-> [torque_type |-> "Rotary", thrust_type |-> "None"],
                Globe     |-> [torque_type |-> "None",   thrust_type |-> "Linear"],
                Gate      |-> [torque_type |-> "None",   thrust_type |-> "Linear"],
                Plug      |-> [torque_type |-> "Rotary", thrust_type |-> "None"],
                Diaphragm |-> [torque_type |-> "None",   thrust_type |-> "Linear"]]

SAFETY_FACTORS == [Standard |-> <<5, 4>>, High |-> <<3, 2>>, Critical |-> <<2, 1>>]

SEAL_FRICTION == [PTFE |-> <<1, 20>>, Graphite |-> <<1, 10>>,
                  Metal |-> <<3, 20>>, Elastomer |-> <<2, 25>>]

\* ------------------------------------------------------------------------
\* Valve and actuator records, and the two catalogs
\* ------------------------------------------------------------------------
Valve(size_inch, valve_type, pressure_class, seat_material, stem_dia_mm, max_pressure_bar, min_pressure_bar, max_temp_c, min_temp_c) ==
    [size |-> size_inch, type |-> valve_type, pressure_class |-> pressure_class,
     seat_material |-> seat_material, stem_dia_mm |-> stem_dia_mm,
     max_pressure |-> max_pressure_bar, min_pressure |-> min_pressure_bar,
     max_temp |-> max_temp_c, min_temp |-> min_temp_c]

VALVE_DATABASE == <<
    Valve(2,  "Ball",      600, "PTFE",      20, 100, 0, 200, -20),
    Valve(4,  "Ball",      600, "Metal",     30, 100, 0, 250, -20),
    Valve(6,  "Butterfly", 300, "Elastomer", 40, 40,  0, 150, -10),
    Valve(8,  "Butterfly", 150, "PTFE",      50, 25,  0, 180, -10),
    Valve(3,  "Globe",     900, "Graphite",  25, 150, 0, 350, -50),
    Valve(6,  "Gate",      600, "Graphite",  35, 100, 0, 400, -30),
    Valve(2,  "Plug",      600, "PTFE",      22, 100, 0, 200, -20),
    Valve(10, "Diaphragm", 150, "Elastomer", 60, 16,  0, 120, -10) >>

\* power is in units of 0.01 kW (the only non-integer field of the catalog)
Actuator(model, manufacturer, torque_nm, thrust_n, max_pressure_bar, min_temp_c, max_temp_c, power_kw, supply_type, weight_kg, price_usd) ==
    [model |-> model, manufacturer |-> manufacturer, torque |-> torque_nm,
     thrust |-> thrust_n, max_pressure |-> max_pressure_bar,
     min_temp |-> min_temp_c, max_temp |-> max_temp_c, power |-> power_kw,
     supply |-> supply_type, weight |-> weight_kg, price |-> price_usd]

ACTUATOR_DATABASE == <<
    Actuator("SR-100",  "Rotork",    1000,  0,     100, -30, 120, 50,  "Pneumatic", 25,  3500),
    Actuator("SR-500",  "Rotork",    5000,  0,     100, -30, 120, 100, "Pneumatic", 45,  5500),
    Actuator("IQT-300", "Rotork",    3000,  0,     100, -40, 150, 75,  "Electric",  40,  6500),
    Actuator("SMC-200", "Emerson",   2000,  0,     100, -20, 100, 60,  "Pneumatic", 30,  4200),
    Actuator("SMC-800", "Emerson",   8000,  0,     100, -20, 100, 150, "Pneumatic", 65,  7800),
    Actuator("F10",     "Flowserve", 0,     15000, 150, -50, 200, 120, "Hydraulic", 85,  9500),
    Actuator("F25",     "Flowserve", 0,     25000, 200, -50, 250, 200, "Hydraulic", 120, 12500),
    Actuator("E-200",   "AUMA",      2000,  0,     100, -30, 120, 80,  "Electric",  38,  5800),
    Actuator("E-1000",  "AUMA",      10000, 0,     100, -30, 120, 250, "Electric",  95,  11200),
    Actuator("H-150",   "Honeywell", 0,     20000, 180, -40, 180, 180, "Hydraulic", 100, 10500) >>

\* SEAL_FRICTION.get(self.seat_material, 0.1)
get_seal_friction(valve) ==
    IF valve.seat_material \in DOMAIN SEAL_FRICTION
    THEN SEAL_FRICTION[valve.seat_material] ELSE <<1, 10>>

\* math.pi * (size * 0.0254 / 2) ** 2, in m^2; pi * 0.0127^2 = 5.067e-4
get_area(valve) == Norm(valve.size * valve.size * 5067, 10000000)

\* math.pi * (stem_dia_mm / 1000 / 2) ** 2, in m^2; pi / 4 = 0.785
StemArea(valve) == Norm(valve.stem_dia_mm * valve.stem_dia_mm * 157, 200000000)

\* largest r in lo..hi with r * r <= n, given lo * lo <= n < (hi + 1) * (hi + 1)
RECURSIVE ISqrtBetween(_, _, _)
ISqrtBetween(n, lo, hi) ==
    IF lo = hi THEN lo
    ELSE LET mid == (lo + hi + 1) \div 2
         IN  IF mid * mid <= n THEN ISqrtBetween(n, mid, hi)
             ELSE ISqrtBetween(n, lo, mid - 1)

\* size ** 1.5 to two decimal places
Pow15(size) == Norm(ISqrtBetween(size * size * size * 10000, 0, 40000), 100)

\* 1.0 + (temperature_c - threshold) * slope above the threshold, else 1.0
TempFactor(temperature_c, threshold, slope) ==
    IF temperature_c > threshold
    THEN RAdd(R(1), RMul(R(temperature_c - threshold), slope))
    ELSE R(1)

\* a torque or force x, in hundredths of its unit, rounded down
Hundredths(x) == (x[1] \div x[2]) * 100 + ((x[1] % x[2]) * 100) \div x[2]

\* the product of h hundredths and the factor f, in hundredths, rounded down
Times(h, f) == (h \div f[2]) * f[1] + ((h % f[2]) * f[1]) \div f[2]

\* h hundredths as a number
FromHundredths(h) == Norm(h, 100)

\* ------------------------------------------------------------------------
\* Torque / thrust calculation
\* ------------------------------------------------------------------------
\* the temperature term subtracted instead of added
calculate_ball_valve_torque_Derates(valve, pressure_bar, temperature_c) ==
    LET base_torque == Hundredths(RMul(R(valve.size * pressure_bar), <<4, 5>>))
        temp_factor == IF temperature_c > 100
                       THEN RSub(R(1), RMul(R(temperature_c - 100), <<1, 200>>))
                       ELSE R(1)
        seat_factor == IF valve.seat_material = "Metal" THEN <<13, 10>>
                       ELSE IF valve.seat_material = "Graphite" THEN <<11, 10>>
                       ELSE R(1)
    IN  FromHundredths(Times(Times(base_torque, temp_factor), seat_factor))

\* the seat factors of Metal and Graphite exchanged
calculate_ball_valve_torque_SeatsExchanged(valve, pressure_bar, temperature_c) ==
    LET base_torque == Hundredths(RMul(R(valve.size * pressure_bar), <<4, 5>>))
        temp_factor == TempFactor(temperature_c, 100, <<1, 200>>)
        seat_factor == IF valve.seat_material = "Metal" THEN <<11, 10>>
                       ELSE IF valve.seat_material = "Graphite" THEN <<13, 10>>
                       ELSE R(1)
    IN  FromHundredths(Times(Times(base_torque, temp_factor), seat_factor))

\* lines 129-146
calculate_ball_valve_torque(valve, pressure_bar, temperature_c) ==
    LET base_torque == Hundredths(RMul(R(valve.size * pressure_bar), <<4, 5>>))
        temp_factor == TempFactor(temperature_c, 100, <<1, 200>>)
        seat_factor == IF valve.seat_material = "Metal" THEN <<13, 10>>
                       ELSE IF valve.seat_material = "Graphite" THEN <<11, 10>>
                       ELSE R(1)
    IN  FromHundredths(Times(Times(base_torque, temp_factor), seat_factor))

calculate_butterfly_valve_torque(valve, pressure_bar, temperature_c) ==
    LET base_torque == Hundredths(RMul(RMul(Pow15(valve.size), R(pressure_bar)), <<1, 2>>))
        temp_factor == TempFactor(temperature_c, 80, <<7, 1000>>)
        seat_factor == IF valve.seat_material = "Elastomer" THEN <<9, 10>>
                       ELSE R(1)
    IN  FromHundredths(Times(Times(base_torque, temp_factor), seat_factor))

\* the pressure force taken as relieving the seat load
calculate_globe_valve_thrust_PressureRelieves(valve, pressure_bar, temperature_c) ==
    LET area          == get_area(valve)
        dp_force      == Hundredths(RMul(RMul(area, R(pressure_bar)), R(100000)))
        stem_area     == StemArea(valve)
        packing_force == Hundredths(RMul(RMul(RMul(stem_area, R(pressure_bar)), R(100000)),
                                         get_seal_friction(valve)))
        seat_force    == Hundredths(R(valve.size * 1000))
        temp_factor   == TempFactor(temperature_c, 150, <<1, 500>>)
    IN  FromHundredths(Times(seat_force + packing_force - dp_force, temp_factor))

\* lines 167-185
calculate_globe_valve_thrust(valve, pressure_bar, temperature_c) ==
    LET area          == get_area(valve)
        dp_force      == Hundredths(RMul(RMul(area, R(pressure_bar)), R(100000)))
        stem_area     == StemArea(valve)
        packing_force == Hundredths(RMul(RMul(RMul(stem_area, R(pressure_bar)), R(100000)),
                                         get_seal_friction(valve)))
        seat_force    == Hundredths(R(valve.size * 1000))
        temp_factor   == TempFactor(temperature_c, 150, <<1, 500>>)
    IN  FromHundredths(Times(dp_force + packing_force + seat_force, temp_factor))

calculate_gate_valve_thrust(valve, pressure_bar, temperature_c) ==
    LET area          == get_area(valve)
        dp_force      == Hundredths(RMul(RMul(area, R(pressure_bar)), R(100000)))
        stem_area     == StemArea(valve)
        packing_force == Hundredths(RMul(RMul(RMul(stem_area, R(pressure_bar)), R(100000)),
                                         get_seal_friction(valve)))
        wedge_factor  == IF valve.type = "Gate" THEN <<3, 2>> ELSE R(1)
        temp_factor   == TempFactor(temperature_c, 200, <<3, 2000>>)
    IN  FromHundredths(Times(Times(dp_force, wedge_factor) + packing_force, temp_factor))

\* lines 219-220: area * pressure_bar * 100000 * 1.2
DiaphragmThrust(valve, pressure_bar) ==
    FromHundredths(Times(Hundredths(RMul(RMul(get_area(valve), R(pressure_bar)), R(100000))),
                         <<6, 5>>))

\* the Butterfly branch labelled with the linear unit type
calculate_valve_torque_thrust_ButterflyThrust(valve, pressure_bar, temperature_c) ==
    IF valve.type \in {"Ball", "Plug"}
    THEN <<calculate_ball_valve_torque(valve, pressure_bar, temperature_c), "Torque (Nm)">>
    ELSE IF valve.type = "Butterfly"
    THEN <<calculate_butterfly_valve_torque(valve, pressure_bar, temperature_c), "Thrust (N)">>
    ELSE IF valve.type = "Globe"
    THEN <<calculate_globe_valve_thrust(valve, pressure_bar, temperature_c), "Thrust (N)">>
    ELSE IF valve.type = "Gate"
    THEN <<calculate_gate_valve_thrust(valve, pressure_bar, temperature_c), "Thrust (N)">>
    ELSE IF valve.type = "Diaphragm"
    THEN <<DiaphragmThrust(valve, pressure_bar), "Thrust (N)">>
    ELSE <<R(0), "Unknown">>

\* the last branch taken for every type that is none of the first five
calculate_valve_torque_thrust_ElseDiaphragm(valve, pressure_bar, temperature_c) ==
    IF valve.type = "Ball" \/ valve.type = "Plug"
    THEN <<calculate_ball_valve_torque(valve, pressure_bar, temperature_c), "Torque (Nm)">>
    ELSE IF valve.type = "Butterfly"
    THEN <<calculate_butterfly_valve_torque(valve, pressure_bar, temperature_c), "Torque (Nm)">>
    ELSE IF valve.type = "Globe"
    THEN <<calculate_globe_valve_thrust(valve, pressure_bar, temperature_c), "Thrust (N)">>
    ELSE IF valve.type = "Gate"
    THEN <<calculate_gate_valve_thrust(valve, pressure_bar, temperature_c), "Thrust (N)">>
    ELSE <<DiaphragmThrust(valve, pressure_bar), "Thrust (N)">>

\* lines 207-222
calculate_valve_torque_thrust(valve, pressure_bar, temperature_c) ==
    IF valve.type = "Ball" \/ valve.type = "Plug"
    THEN <<calculate_ball_valve_torque(valve, pressure_bar, temperature_c), "Torque (Nm)">>
    ELSE IF valve.type = "Butterfly"
    THEN <<calculate_butterfly_valve_torque(valve, pressure_bar, temperature_c), "Torque (Nm)">>
    ELSE IF valve.type = "Globe"
    THEN <<calculate_globe_valve_thrust(valve, pressure_bar, temperature_c), "Thrust (N)">>
    ELSE IF valve.type = "Gate"
    THEN <<calculate_gate_valve_thrust(valve, pressure_bar, temperature_c), "Thrust (N)">>
    ELSE IF valve.type = "Diaphragm"
    THEN <<DiaphragmThrust(valve, pressure_bar), "Thrust (N)">>
    ELSE <<R(0), "Unknown">>

\* ------------------------------------------------------------------------
\* Actuator selection
\* ------------------------------------------------------------------------
\* Python's None; None and "" are the falsy values of the supply_type argument
None == "<None>"

Truthy(x) == x # None /\ x # ""

\* the motion-type test left out
MotionTypeSkip_Never(actuator, value_type) == FALSE

\* lines 233-236: the actuator does not match the required motion type
MotionTypeSkip(actuator, value_type) ==
    \/ value_type = "Torque (Nm)" /\ actuator.torque = 0
    \/ value_type = "Thrust (N)" /\ actuator.thrust = 0

\* the "Any" entry of the supply selector taken for a supply type
SupplySkip_NoAny(actuator, supply_type) ==
    Truthy(supply_type) /\ actuator.supply # supply_type

\* line 239: a specific supply type was requested and the actuator's differs
SupplySkip(actuator, supply_type) ==
    Truthy(supply_type) /\ supply_type # "Any" /\ actuator.supply # supply_type

\* the rating compared with the valve's rated minimum
PressureSkip_MinPressure(actuator, valve) == actuator.max_pressure < valve.min_pressure

\* line 243: pressure rating below the valve's rated maximum
PressureSkip(actuator, valve) == actuator.max_pressure < valve.max_pressure

\* "and" in place of "or"
TemperatureSkip_And(actuator, valve) ==
    actuator.min_temp > valve.min_temp /\ actuator.max_temp < valve.max_temp

\* line 247: the valve's rated temperature range is not inside the actuator's
TemperatureSkip(actuator, valve) ==
    actuator.min_temp > valve.min_temp \/ actuator.max_temp < valve.max_temp

\* lines 251-254
Capability(actuator, value_type) ==
    IF value_type = "Torque (Nm)" THEN actuator.torque ELSE actuator.thrust

\* the comparison made against the plain requirement
MeetsRequirement_NoSafetyFactor(capability, required_value, safety_factor) ==
    RGeq(R(capability), required_value)

\* line 256: capability >= required_value * safety_factor
MeetsRequirement(capability, required_value, safety_factor) ==
    RGeq(R(capability), RMul(required_value, safety_factor))

\* the margin left as a fraction, not a percentage
Margin_Fraction(capability, required_value, safety_factor) ==
    RSub(RDiv(R(capability), RMul(required_value, safety_factor)), R(1))

\* the margin taken over the plain requirement
Margin_NoSafetyFactor(capability, required_value, safety_factor) ==
    RMul(RSub(RDiv(R(capability), required_value), R(1)), R(100))

\* line 258: (capability / (required_value * safety_factor) - 1) * 100;
\* evaluated only where the product is non-zero
Margin(capability, required_value, safety_factor) ==
    RMul(RSub(RDiv(R(capability), RMul(required_value, safety_factor)), R(1)), R(100))

\* line 258 raises ZeroDivisionError when required_value * safety_factor is 0
MarginRaises(required_value, safety_factor) ==
    RIsZero(RMul(required_value, safety_factor))

\* the module-level lists VALVE_DATABASE and ACTUATOR_DATABASE as the process
\* holds them: Python lists, which any code with a reference could alter
VARIABLE catalog

\* lines 231-263: the loop over ACTUATOR_DATABASE from entry i on, acc being
\* suitable_actuators so far; an exception abandons the call
RECURSIVE ScanCatalog(_, _, _, _, _, _, _)
ScanCatalog(i, acc, required_value, value_type, valve, safety_factor, supply_type) ==
    IF i > Len(catalog.ACTUATOR_DATABASE) THEN [raised |-> FALSE, suitable_actuators |-> acc]
    ELSE LET actuator   == catalog.ACTUATOR_DATABASE[i]
             capability == Capability(actuator, value_type)
             skip == \/ MotionTypeSkip(actuator, value_type)
                     \/ SupplySkip(actuator, supply_type)
                     \/ PressureSkip(actuator, valve)
                     \/ TemperatureSkip(actuator, valve)
                     \/ ~MeetsRequirement(capability, required_value, safety_factor)
         IN  IF skip
             THEN ScanCatalog(i + 1, acc, required_value, value_type, valve,
                              safety_factor, supply_type)
             ELSE IF MarginRaises(required_value, safety_factor)
             THEN [raised |-> TRUE, suitable_actuators |-> <<>>]
             ELSE ScanCatalog(i + 1,
                              Append(acc, [actuator   |-> actuator,
                                           capability |-> capability,
                                           margin     |-> Margin(capability, required_value,
                                                                 safety_factor)]),
                              required_value, value_type, valve, safety_factor, supply_type)

\* ties broken towards the later element
KeyLess_OrEqual(x, y) == x.capability <= y.capability

\* the key of line 266 compared as list.sort compares it: x goes before y
\* only if its key is strictly smaller
KeyLess(x, y) == x.capability < y.capability

\* insert x after every element whose key is not greater (stable)
RECURSIVE InsertStable(_, _)
InsertStable(x, s) ==
    IF s = <<>> THEN <<x>>
    ELSE IF KeyLess(x, Head(s)) THEN <<x>> \o s
    ELSE <<Head(s)>> \o InsertStable(x, Tail(s))

\* line 266: suitable_actuators.sort(key=lambda x: x["capability"]), a stable
\* ascending sort
RECURSIVE SortByCapability(_)
SortByCapability(s) ==
    IF s = <<>> THEN <<>>
    ELSE InsertStable(s[Len(s)], SortByCapability(SubSeq(s, 1, Len(s) - 1)))

\* an empty list reported as an error
find_suitable_actuators_RaiseOnEmpty(required_value, value_type, valve, safety_factor, supply_type) ==
    LET scan == ScanCatalog(1, <<>>, required_value, value_type, valve,
                            safety_factor, supply_type)
    IN  IF scan.raised \/ scan.suitable_actuators = <<>>
        THEN [raised |-> TRUE, suitable_actuators |-> <<>>]
        ELSE [raised |-> FALSE,
              suitable_actuators |-> SortByCapability(scan.suitable_actuators)]

\* the scan started past the first catalog entry
find_suitable_actuators_SkipFirst(required_value, value_type, valve, safety_factor, supply_type) ==
    LET scan == ScanCatalog(2, <<>>, required_value, value_type, valve,
                            safety_factor, supply_type)
    IN  IF scan.raised THEN scan
        ELSE [raised |-> FALSE,
              suitable_actuators |-> SortByCapability(scan.suitable_actuators)]

\* lines 227-268
find_suitable_actuators(required_value, value_type, valve, safety_factor, supply_type) ==
    LET scan == ScanCatalog(1, <<>>, required_value, value_type, valve,
                            safety_factor, supply_type)
    IN  IF scan.raised THEN scan
        ELSE [raised |-> FALSE,
              suitable_actuators |-> SortByCapability(scan.suitable_actuators)]

\* the catalog itself sorted by rated capability, in place
CatalogAfterSelection_SortedInPlace(database) ==
    LET keyed  == [k \in DOMAIN database.ACTUATOR_DATABASE |->
                      [actuator   |-> database.ACTUATOR_DATABASE[k],
                       capability |-> database.ACTUATOR_DATABASE[k].torque
                                      + database.ACTUATOR_DATABASE[k].thrust]]
        sorted == SortByCapability(keyed)
    IN  [database EXCEPT !.ACTUATOR_DATABASE = [k \in DOMAIN sorted |-> sorted[k].actuator]]

\* lines 229-266: the selector appends to and sorts suitable_actuators, the
\* list it created at line 229; ACTUATOR_DATABASE is only iterated (line 231)
\* and the valve only read, so the lists after the call are those before it
CatalogAfterSelection(database) == database

\* the bands closed at their lower ends
MarginStatus_AtLeast(margin) ==
    IF RGeq(margin, R(50)) THEN "Over-sized"
    ELSE IF RGeq(margin, R(20)) THEN "Well-sized"
    ELSE "Minimal margin"

\* main, lines 741-750: the status shown for a candidate's margin
MarginStatus(margin) ==
    IF ~RLeq(margin, R(50)) THEN "Over-sized"
    ELSE IF ~RLeq(margin, R(20)) THEN "Well-sized"
    ELSE "Minimal margin"

\* ------------------------------------------------------------------------
\* Inputs
\* ------------------------------------------------------------------------
MaxPressureSteps == 2
MaxTempSteps == 1

\* operating pressures (bar) and temperatures (degrees C) offered to the calculator
Pressures == {50 * k : k \in 0..MaxPressureSteps}
Temperatures == {20 + 100 * k : k \in 0..MaxTempSteps}

\* valves built by callers besides the catalog's: one whose rated envelope
\* every rotary actuator contains, the catalog's first valve with a metal
\* seat, linear ones at the edge of the pressure ratings, and one of a type
\* the calculator does not know
CallerValves ==
    { Valve(2, "Ball",   150, "Graphite", 20, 100, 0, 100, -20),
      Valve(2, "Ball",   600, "Metal",    20, 100, 0, 200, -20),
      Valve(1, "Globe",  300, "Graphite", 25, 180, 0, 180, -40),
      Valve(1, "Gate",   300, "Metal",    25, 200, 0, 200, -50),
      Valve(4, "Needle", 300, "Ceramic",  12, 100, 0, 100, -20) }

Valves == {VALVE_DATABASE[i] : i \in DOMAIN VALVE_DATABASE} \cup CallerValves

\* requirements passed to the selector without the calculator
RequiredValues == {R(-160), R(0), R(160), R(1600), R(10000)}

ValueTypes == {"Torque (Nm)", "Thrust (N)", "Unknown"}

SafetyFactors == {SAFETY_FACTORS[k] : k \in DOMAIN SAFETY_FACTORS}

SupplyTypes == {None, "", "Any", "any", "Pneumatic", "Electric", "Hydraulic"}

\* calculate_valve_torque_thrust tabulated over the inputs offered to it
CalcTable ==
    [v \in Valves, p \in Pressures, t \in Temperatures |->
        calculate_valve_torque_thrust(v, p, t)]

\* ------------------------------------------------------------------------
\* State.  requirement: the requirement in hand, <<>> before there is one;
\* its conditions are <<pressure_bar, temperature_c>> when the calculator
\* produced it and <<>> when the caller supplied the figure.  selection: the
\* outcome of the last selector call for it, <<>> before there is one.
\* ------------------------------------------------------------------------
VARIABLES requirement, selection

vars == <<requirement, selection, catalog>>

Init ==
    /\ requirement = <<>>
    /\ selection = <<>>
    /\ catalog = [VALVE_DATABASE |-> VALVE_DATABASE, ACTUATOR_DATABASE |-> ACTUATOR_DATABASE]

\* calculate_valve_torque_thrust(valve, pressure_bar, temperature_c)
Calculate(valve, pressure_bar, temperature_c) ==
    LET r == CalcTable[valve, pressure_bar, temperature_c]
    IN  /\ requirement' = <<[valve |-> valve,
                             conditions |-> <<pressure_bar, temperature_c>>,
                             required_value |-> r[1], value_type |-> r[2]]>>
        /\ selection' = <<>>
        /\ UNCHANGED catalog

\* a caller puts its own figure in place of the calculator's for the valve in hand
SetRequirement(required_value, value_type) ==
    /\ requirement # <<>>
    /\ requirement' = <<[valve |-> requirement[1].valve,
                         conditions |-> <<>>,
                         required_value |-> required_value,
                         value_type |-> value_type]>>
    /\ selection' = <<>>
    /\ UNCHANGED catalog

\* find_suitable_actuators(required_value, value_type, valve, safety_factor, supply_type)
\* and the status column of the table main builds from the list returned
FindSuitable(safety_factor, supply_type) ==
    /\ requirement # <<>>
    /\ \E r \in {find_suitable_actuators(requirement[1].required_value,
                                          requirement[1].value_type,
                                          requirement[1].valve,
                                          safety_factor, supply_type)} :
          selection' = <<[safety_factor |-> safety_factor,
                          supply_type   |-> supply_type,
                          raised        |-> r.raised,
                          suitable_actuators |-> r.suitable_actuators,
                          status        |-> [k \in DOMAIN r.suitable_actuators |->
                                                MarginStatus(r.suitable_actuators[k].margin)]]>>
    /\ catalog' = CatalogAfterSelection(catalog)
    /\ UNCHANGED requirement

Next ==
    \/ \E v \in Valves, p \in Pressures, t \in Temperatures : Calculate(v, p, t)
    \/ \E rv \in RequiredValues, vt \in ValueTypes : SetRequirement(rv, vt)
    \/ \E sf \in SafetyFactors, st \in SupplyTypes : FindSuitable(sf, st)

Spec == Init /\ [][Next]_vars

\* ------------------------------------------------------------------------
\* Properties
\* ------------------------------------------------------------------------
SixTypes == {"Ball", "Plug", "Butterfly", "Globe", "Gate", "Diaphragm"}

\* a selector call has been made for the requirement in hand / it returned
Selected == selection # <<>>
Returned == Selected /\ ~selection[1].raised

\* the candidates of the list returned, as a set of catalog positions
Candidates == selection[1].suitable_actuators
CatalogIndex(actuator) ==
    CHOOSE i \in DOMAIN ACTUATOR_DATABASE : ACTUATOR_DATABASE[i] = actuator
ReturnedIndices == {CatalogIndex(Candidates[k].actuator) : k \in DOMAIN Candidates}

\* required_value * safety_factor of the call, as numerator and denominator
AdjNum == requirement[1].required_value[1] * selection[1].safety_factor[1]
AdjDen == requirement[1].required_value[2] * selection[1].safety_factor[2]

\* C1: every candidate returned has capability >= required_value *
\* safety_factor, the capability being the actuator's rating for the unit type.
C1_CapabilityMeetsAdjustedRequirement ==
    Returned =>
        \A k \in DOMAIN Candidates :
            LET c == Candidates[k]
                rated == IF requirement[1].value_type = "Torque (Nm)"
                         THEN c.actuator.torque ELSE c.actuator.thrust
            IN  /\ c.capability * AdjDen >= AdjNum
                /\ rated * AdjDen >= AdjNum

\* C1 witness: a positive adjusted requirement above the plain one, met by a
\* returned actuator while another actuator of that kind falls short of it
C1_Witness ==
    /\ Returned
    /\ Candidates # <<>>
    /\ AdjNum > 0
    /\ selection[1].safety_factor # R(1)
    /\ \E i \in DOMAIN ACTUATOR_DATABASE :
          /\ ACTUATOR_DATABASE[i].torque # 0
          /\ requirement[1].value_type = "Torque (Nm)"
          /\ ACTUATOR_DATABASE[i].torque * AdjDen < AdjNum

\* C2: with unit type "Torque (Nm)" every returned actuator has non-zero
\* rated torque and the reported capability is that torque; with "Thrust (N)"
\* non-zero rated thrust and the reported capability is that thrust.
C2_MotionTypeMatches ==
    Returned =>
        \A k \in DOMAIN Candidates :
            LET c == Candidates[k]
            IN  /\ requirement[1].value_type = "Torque (Nm)" =>
                      c.actuator.torque # 0 /\ c.capability = c.actuator.torque
                /\ requirement[1].value_type = "Thrust (N)" =>
                      c.actuator.thrust # 0 /\ c.capability = c.actuator.thrust

\* C2 witness: a torque selection whose threshold the zero torque of a linear
\* actuator would meet, were linear actuators not excluded by kind
C2_Witness ==
    /\ Returned
    /\ Candidates # <<>>
    /\ requirement[1].value_type = "Torque (Nm)"
    /\ AdjNum < 0

\* The five predicates of the filtering pipeline as the specification words
\* them, for catalog entry i and the call recorded in the state
MotionOK(i) ==
    LET a == ACTUATOR_DATABASE[i]
    IN  /\ requirement[1].value_type = "Torque (Nm)" => a.torque # 0
        /\ requirement[1].value_type = "Thrust (N)" => a.thrust # 0

PressureOK(i) == ACTUATOR_DATABASE[i].max_pressure >= requirement[1].valve.max_pressure

TemperatureOK(i) ==
    /\ ACTUATOR_DATABASE[i].min_temp <= requirement[1].valve.min_temp
    /\ ACTUATOR_DATABASE[i].max_temp >= requirement[1].valve.max_temp

ThresholdOK(i) ==
    LET a == ACTUATOR_DATABASE[i]
        rated == IF requirement[1].value_type = "Torque (Nm)" THEN a.torque ELSE a.thrust
    IN  rated * AdjDen >= AdjNum

\* the supply predicate, noFilter being the argument values that ask for no filter
SupplyOK(i, noFilter) ==
    \/ selection[1].supply_type \in noFilter
    \/ ACTUATOR_DATABASE[i].supply = selection[1].supply_type

Absent == {None, ""}

\* C3 (as claimed): with required_value = 0 the call returns, and returns every
\* catalog actuator that is motion-type compatible, passes the supply filter
\* and satisfies the pressure and temperature checks.
C3_ZeroRequirementReturnsAllCompatible ==
    (Selected /\ requirement[1].required_value = R(0)) =>
        /\ ~selection[1].raised
        /\ ReturnedIndices = {i \in DOMAIN ACTUATOR_DATABASE :
                                 /\ MotionOK(i)
                                 /\ SupplyOK(i, Absent \cup {"Any"})
                                 /\ PressureOK(i)
                                 /\ TemperatureOK(i)}

\* C4 (as claimed): with the supply filter absent or "any" the actuators
\* returned are those the other four predicates admit.
C4_AnyLowerCaseMeansNoFilter ==
    (Returned /\ selection[1].supply_type \in Absent \cup {"any"}) =>
        ReturnedIndices = {i \in DOMAIN ACTUATOR_DATABASE :
                              MotionOK(i) /\ PressureOK(i) /\ TemperatureOK(i) /\ ThresholdOK(i)}

\* C4 (amended): with the supply filter absent (None or empty) or exactly
\* "Any" the actuators returned are those the other four predicates admit;
\* with any other string, "any" included, only actuators whose supply type
\* equals that string remain.
C4_AbsentOrAnyMeansNoFilter ==
    Returned =>
        LET four == {i \in DOMAIN ACTUATOR_DATABASE :
                        MotionOK(i) /\ PressureOK(i) /\ TemperatureOK(i) /\ ThresholdOK(i)}
            st == selection[1].supply_type
        IN  ReturnedIndices =
                IF st \in Absent \cup {"Any"} THEN four
                ELSE {i \in four : ACTUATOR_DATABASE[i].supply = st}

\* C4 witness: an unfiltered call returning actuators of two supply types
C4_Witness ==
    /\ Returned
    /\ selection[1].supply_type = "Any"
    /\ \E j, k \in DOMAIN Candidates :
          Candidates[j].actuator.supply # Candidates[k].actuator.supply

\* C5: the list returned is ordered by the pair (capability, catalog index).
C5_SortedByCapabilityThenCatalogOrder ==
    Returned =>
        \A j, k \in DOMAIN Candidates :
            j < k =>
                \/ Candidates[j].capability < Candidates[k].capability
                \/ /\ Candidates[j].capability = Candidates[k].capability
                   /\ CatalogIndex(Candidates[j].actuator) < CatalogIndex(Candidates[k].actuator)

\* C5 witness: a list in which two candidates tie in capability and a
\* candidate of smaller capability comes from a later catalog entry
C5_Witness ==
    /\ Returned
    /\ \E j, k \in DOMAIN Candidates :
          /\ j < k
          /\ Candidates[j].capability = Candidates[k].capability
    /\ \E j, k \in DOMAIN Candidates :
          /\ Candidates[j].capability < Candidates[k].capability
          /\ CatalogIndex(Candidates[j].actuator) > CatalogIndex(Candidates[k].actuator)

\* C6: for required_value * safety_factor > 0 the call returns exactly the
\* catalog entries satisfying all five predicates, each once.
C6_ExactlyTheEntriesPassingAllFive ==
    (Selected /\ AdjNum > 0) =>
        /\ ~selection[1].raised
        /\ ReturnedIndices = {i \in DOMAIN ACTUATOR_DATABASE :
                                 /\ ThresholdOK(i)
                                 /\ TemperatureOK(i)
                                 /\ PressureOK(i)
                                 /\ SupplyOK(i, Absent \cup {"Any"})
                                 /\ MotionOK(i)}
        /\ Len(Candidates) = Cardinality(ReturnedIndices)

\* C6 witness: a call that returns some catalog entries and leaves out others
\* of the same kind, the first catalog entry among those returned
C6_Witness ==
    /\ Returned
    /\ AdjNum > 0
    /\ 1 \in ReturnedIndices
    /\ \E i \in DOMAIN ACTUATOR_DATABASE : i \notin ReturnedIndices /\ MotionOK(i)

\* the requirement in hand came from the calculator
Calculated == requirement # <<>> /\ requirement[1].conditions # <<>>

\* C7: every returned actuator's temperature range contains the valve's rated
\* range, whatever the operating temperature.
C7_TemperatureEnvelopeContainsValves ==
    Returned =>
        \A k \in DOMAIN Candidates :
            /\ Candidates[k].actuator.min_temp <= requirement[1].valve.min_temp
            /\ Candidates[k].actuator.max_temp >= requirement[1].valve.max_temp

\* C7 witness: a returned actuator whose maximum temperature is below the
\* operating temperature the requirement was computed at
C7_Witness ==
    /\ Returned
    /\ Calculated
    /\ \E k \in DOMAIN Candidates :
          Candidates[k].actuator.max_temp < requirement[1].conditions[2]

\* C8: every returned actuator has maximum operable pressure >= the valve's
\* rated maximum pressure; an actuator rated below it is left out even when
\* its rating covers the operating pressure.
C8_PressureRatingCoversValveMaximum ==
    Returned =>
        /\ \A k \in DOMAIN Candidates :
              Candidates[k].actuator.max_pressure >= requirement[1].valve.max_pressure
        /\ \A i \in DOMAIN ACTUATOR_DATABASE :
              ACTUATOR_DATABASE[i].max_pressure < requirement[1].valve.max_pressure
                  => i \notin ReturnedIndices

\* C8 witness: actuators are returned while one that meets every other
\* predicate and tolerates the operating pressure is left out for its rating
C8_Witness ==
    /\ Returned
    /\ Calculated
    /\ Candidates # <<>>
    /\ \E i \in DOMAIN ACTUATOR_DATABASE :
          /\ i \notin ReturnedIndices
          /\ MotionOK(i) /\ TemperatureOK(i) /\ ThresholdOK(i)
          /\ SupplyOK(i, Absent \cup {"Any"})
          /\ ACTUATOR_DATABASE[i].max_pressure >= requirement[1].conditions[1]
          /\ requirement[1].conditions[1] > 0

\* C9: for required_value * safety_factor > 0 every candidate's margin
\* satisfies capability = required_value * safety_factor * (1 + margin / 100),
\* is >= 0, and is 0 exactly when capability equals the adjusted requirement.
C9_MarginConsistent ==
    (Returned /\ AdjNum > 0) =>
        \A k \in DOMAIN Candidates :
            LET c == Candidates[k]
                adjusted == Norm(AdjNum, AdjDen)
            IN  /\ RMul(adjusted, RAdd(R(1), RDiv(c.margin, R(100)))) = R(c.capability)
                /\ c.margin[1] >= 0
                /\ (c.margin[1] = 0) <=> (c.capability * AdjDen = AdjNum)

\* C9 witness: a list holding a candidate of margin 0 and one of positive
\* margin, the safety factor not being 1
C9_Witness ==
    /\ Returned
    /\ AdjNum > 0
    /\ selection[1].safety_factor # R(1)
    /\ \E j, k \in DOMAIN Candidates :
          Candidates[j].margin = R(0) /\ Candidates[k].margin[1] > 0

\* C10: for a valve whose type is none of Ball, Plug, Butterfly, Globe, Gate,
\* Diaphragm the calculator returns required value 0 with unit type "Unknown",
\* at every pressure and temperature.
C10_UnknownTypeGivesZeroUnknown ==
    (Calculated /\ requirement[1].valve.type \notin SixTypes) =>
        /\ requirement[1].required_value = R(0)
        /\ requirement[1].value_type = "Unknown"

\* C10 witness: the calculator applied to a valve of unknown type at positive
\* pressure and a temperature above every threshold of the formulas
C10_Witness ==
    /\ Calculated
    /\ requirement[1].valve.type \notin SixTypes
    /\ requirement[1].conditions[1] > 0
    /\ requirement[1].conditions[2] > 100

\* the value and unit type the calculator gave for the requirement in hand,
\* and the conditions it was given
CalcValve == requirement[1].valve
CalcPressure == requirement[1].conditions[1]
CalcTemperature == requirement[1].conditions[2]

\* C11: the calculator returns "Torque (Nm)" exactly when the valve type is
\* Ball, Plug or Butterfly and "Thrust (N)" exactly when it is Globe, Gate or
\* Diaphragm, whatever the pressure, temperature and seat material, and in
\* agreement with the Rotary / Linear marking of the type in VALVE_TYPES.
C11_UnitFollowsValveType ==
    Calculated =>
        LET type == CalcValve.type
            unit == requirement[1].value_type
        IN  /\ (unit = "Torque (Nm)") <=> (type \in {"Ball", "Plug", "Butterfly"})
            /\ (unit = "Thrust (N)") <=> (type \in {"Globe", "Gate", "Diaphragm"})
            /\ type \in DOMAIN VALVE_TYPES =>
                  /\ (unit = "Torque (Nm)") <=> (VALVE_TYPES[type].torque_type = "Rotary")
                  /\ (unit = "Thrust (N)") <=> (VALVE_TYPES[type].thrust_type = "Linear")

\* C11 witness: a Butterfly valve with an elastomer seat calculated at positive
\* pressure above its temperature threshold, the unit type being the rotary one
C11_Witness ==
    /\ Calculated
    /\ CalcValve.type = "Butterfly"
    /\ CalcValve.seat_material = "Elastomer"
    /\ CalcPressure > 0
    /\ CalcTemperature > 80
    /\ requirement[1].value_type = "Torque (Nm)"

\* C12: for every valve type, the unrecognized ones included, every
\* temperature and every pressure P > 0, the required value at pressure 0 is
\* at most the required value at P for the same valve and temperature.
C12_ZeroPressureIsLeast ==
    (Calculated /\ CalcPressure > 0) =>
        RLeq(calculate_valve_torque_thrust(CalcValve, 0, CalcTemperature)[1],
             requirement[1].required_value)

\* C12 witness: a Globe valve calculated at positive pressure, its seat load
\* making the value at pressure 0 positive and the value at P larger still
C12_Witness ==
    /\ Calculated
    /\ CalcValve.type = "Globe"
    /\ CalcPressure > 0
    /\ LET atZero == calculate_valve_torque_thrust(CalcValve, 0, CalcTemperature)[1]
       IN  /\ atZero[1] > 0
           /\ ~RLeq(requirement[1].required_value, atZero)

\* temperatures the operating-temperature input accepts, every 10 degrees
ComparedTemperatures == {10 * k - 50 : k \in 0..55}

\* a Ball or Plug valve has been calculated
BallOrPlugCalculated == Calculated /\ CalcValve.type \in {"Ball", "Plug"}

\* C13: for Ball and Plug valves the torque does not decrease when the pressure
\* rises at a fixed temperature, nor when the temperature rises above 100 C at
\* a fixed pressure >= 0; at or below 100 C the temperature factor is exactly
\* 1, so the torque is the same at every such temperature.
C13_BallTorqueMonotone ==
    BallOrPlugCalculated =>
        LET torque == requirement[1].required_value
        IN  /\ \A p2 \in Pressures :
                  p2 >= CalcPressure =>
                      RLeq(torque, calculate_ball_valve_torque(CalcValve, p2, CalcTemperature))
            /\ \A t2 \in ComparedTemperatures :
                  LET other == calculate_ball_valve_torque(CalcValve, CalcPressure, t2)
                  IN  /\ (CalcTemperature > 100 /\ t2 >= CalcTemperature) => RLeq(torque, other)
                      /\ (CalcTemperature <= 100 /\ t2 <= 100) => torque = other
                      /\ (CalcTemperature <= 100 /\ t2 > 100) => RLeq(torque, other)

\* C13 witness: a Ball valve calculated at positive pressure above 100 C, the
\* torque at a higher temperature being strictly larger
C13_Witness ==
    /\ BallOrPlugCalculated
    /\ CalcPressure > 0
    /\ CalcTemperature > 100
    /\ \E t2 \in ComparedTemperatures :
          /\ t2 > CalcTemperature
          /\ ~RLeq(calculate_ball_valve_torque(CalcValve, CalcPressure, t2),
                   requirement[1].required_value)

\* size * pressure * 0.8 * (1 + max(0, t - 100) * 0.005) * seat factor, exactly
BallTorqueFormula(valve, pressure_bar, temperature_c) ==
    LET over == IF temperature_c > 100 THEN temperature_c - 100 ELSE 0
        seat == CASE valve.seat_material = "Metal"    -> <<13, 10>>
                  [] valve.seat_material = "Graphite" -> <<11, 10>>
                  [] OTHER                            -> R(1)
    IN  RMul(RMul(RMul(R(valve.size * pressure_bar), <<4, 5>>),
                  RAdd(R(1), RMul(R(over), <<1, 200>>))),
             seat)

\* the calculation of Scenarios A and B: a 2 inch Ball valve at 100 bar, 20 C
Scenario2InchBall(seat_material) ==
    /\ Calculated
    /\ CalcValve.type = "Ball"
    /\ CalcValve.size = 2
    /\ CalcValve.seat_material = seat_material
    /\ CalcPressure = 100
    /\ CalcTemperature = 20

\* C14: for Ball and Plug valves the required torque is
\* size * pressure * 0.8 * (1 + max(0, t - 100) * 0.005) * seat factor, the
\* seat factor being 1.3 for Metal, 1.1 for Graphite and 1.0 otherwise, with
\* unit type "Torque (Nm)"; a 2 inch PTFE Ball valve at 100 bar and 20 C
\* needs 160 Nm and the same valve with a Metal seat 208 Nm.
C14_BallTorqueFormula ==
    /\ BallOrPlugCalculated =>
          /\ requirement[1].required_value =
                BallTorqueFormula(CalcValve, CalcPressure, CalcTemperature)
          /\ requirement[1].value_type = "Torque (Nm)"
    /\ Scenario2InchBall("PTFE") => requirement[1].required_value = R(160)
    /\ Scenario2InchBall("Metal") => requirement[1].required_value = R(208)

\* C14 witness: the 2 inch Metal-seat Ball valve calculated at 100 bar, 20 C
C14_Witness ==
    /\ Scenario2InchBall("Metal")
    /\ requirement[1].required_value = R(208)
    /\ requirement[1].value_type = "Torque (Nm)"

\* Scenario D: a selector call for a 160 Nm torque requirement with the
\* Standard safety factor
ScenarioD ==
    /\ Selected
    /\ requirement[1].required_value = R(160)
    /\ requirement[1].value_type = "Torque (Nm)"
    /\ selection[1].safety_factor = SAFETY_FACTORS.Standard

\* the catalog's 1000 Nm actuator is in the list returned, with margin 400
Returned1000NmWithMargin400 ==
    /\ Returned
    /\ \E k \in DOMAIN Candidates :
          /\ Candidates[k].actuator.torque = 1000
          /\ Candidates[k].capability = 1000
          /\ Candidates[k].margin = R(400)

\* the valve in hand is a rotary valve of the catalog
RotaryCatalogValve ==
    /\ \E i \in DOMAIN VALVE_DATABASE : requirement[1].valve = VALVE_DATABASE[i]
    /\ requirement[1].valve.type \in {"Ball", "Plug", "Butterfly"}

\* C15 as stated: in Scenario D, for a rotary valve of the catalog and a
\* supply filter that admits pneumatic actuators, the catalog's 1000 Nm
\* actuator is returned with margin 400%.
C15_ScenarioDReturns1000Nm ==
    ( /\ ScenarioD
      /\ RotaryCatalogValve
      /\ selection[1].supply_type \in Absent \cup {"Any", "Pneumatic"} )
    => Returned1000NmWithMargin400

\* C15: in Scenario D the threshold is 200 Nm and the call returns exactly the
\* catalog actuators with rated torque >= 200 that are supply / pressure /
\* temperature compatible with the valve; the catalog's 1000 Nm actuator is
\* returned exactly when it is compatible with the valve, and then with margin
\* (1000 / 200 - 1) * 100 = 400%; for the rotary valves of the catalog it is
\* not.
C15_ScenarioDThresholdAndMargin ==
    ScenarioD =>
        LET compatible == {i \in DOMAIN ACTUATOR_DATABASE :
                              /\ SupplyOK(i, Absent \cup {"Any"})
                              /\ PressureOK(i)
                              /\ TemperatureOK(i)}
        IN  /\ RMul(requirement[1].required_value, selection[1].safety_factor) = R(200)
            /\ Returned
            /\ ReturnedIndices = {i \in compatible : ACTUATOR_DATABASE[i].torque >= 200}
            /\ \A i \in compatible :
                  ACTUATOR_DATABASE[i].torque = 1000 => Returned1000NmWithMargin400
            /\ RotaryCatalogValve => ~Returned1000NmWithMargin400

\* C15 witness: Scenario D for a valve whose rated envelope the 1000 Nm
\* actuator contains, that actuator returned with margin 400
C15_Witness ==
    /\ ScenarioD
    /\ Returned1000NmWithMargin400
    /\ Len(Candidates) > 1

\* the catalog entries satisfying all five predicates for the call made
PassingAllFive ==
    {i \in DOMAIN ACTUATOR_DATABASE :
        /\ MotionOK(i)
        /\ SupplyOK(i, Absent \cup {"Any"})
        /\ PressureOK(i)
        /\ TemperatureOK(i)
        /\ ThresholdOK(i)}

\* C17: when no catalog actuator satisfies all the filtering predicates the
\* call returns an empty list and raises no error.
C17_NoneQualifiesGivesEmptyList ==
    (Selected /\ PassingAllFive = {}) =>
        /\ ~selection[1].raised
        /\ Candidates = <<>>

\* C17 witness: an empty list returned because the adjusted requirement is
\* above every rating, some actuators passing the four other predicates
C17_Witness ==
    /\ Returned
    /\ Candidates = <<>>
    /\ AdjNum > 0
    /\ \E i \in DOMAIN ACTUATOR_DATABASE :
          /\ MotionOK(i)
          /\ SupplyOK(i, Absent \cup {"Any"})
          /\ PressureOK(i)
          /\ TemperatureOK(i)
          /\ ~ThresholdOK(i)

\* C18: the margin-band label is a total function of the margin giving exactly
\* one label: "Over-sized" when margin > 50, "Well-sized" when
\* 20 < margin <= 50 and "Minimal margin" when margin <= 20.
C18_MarginBandLabel ==
    Returned =>
        /\ DOMAIN selection[1].status = DOMAIN Candidates
        /\ \A k \in DOMAIN Candidates :
              LET n     == Candidates[k].margin[1]
                  d     == Candidates[k].margin[2]
                  label == selection[1].status[k]
              IN  /\ label \in {"Over-sized", "Well-sized", "Minimal margin"}
                  /\ (label = "Over-sized") <=> (n > 50 * d)
                  /\ (label = "Well-sized") <=> (20 * d < n /\ n <= 50 * d)
                  /\ (label = "Minimal margin") <=> (n <= 20 * d)

\* C18 witness: one list showing all three labels, a candidate of margin
\* exactly 50 among the "Well-sized" ones
C18_Witness ==
    /\ Returned
    /\ \E i, j, k \in DOMAIN Candidates :
          /\ Candidates[i].margin = R(50) /\ selection[1].status[i] = "Well-sized"
          /\ selection[1].status[j] = "Over-sized"
          /\ Candidates[k].margin[1] >= 0 /\ selection[1].status[k] = "Minimal margin"

\* C16: after any sequence of calculator and selector calls VALVE_DATABASE and
\* ACTUATOR_DATABASE (contents and order) and the valve record passed in are
\* unchanged; sorting the result does not reorder the catalog, and repeating
\* a call with the same arguments returns the same result.
C16_CatalogsAndValveUnchanged ==
    /\ catalog.VALVE_DATABASE = VALVE_DATABASE
    /\ catalog.ACTUATOR_DATABASE = ACTUATOR_DATABASE
    /\ requirement # <<>> => requirement[1].valve \in Valves
    /\ Calculated =>
          calculate_valve_torque_thrust(CalcValve, CalcPressure, CalcTemperature)
              = <<requirement[1].required_value, requirement[1].value_type>>
    /\ Selected =>
          find_suitable_actuators(requirement[1].required_value,
                                  requirement[1].value_type,
                                  requirement[1].valve,
                                  selection[1].safety_factor,
                                  selection[1].supply_type)
              = [raised             |-> selection[1].raised,
                 suitable_actuators |-> selection[1].suitable_actuators]

\* C16 witness: a calculator call followed by a selector call whose sorted
\* result lists two actuators in the opposite of their catalog order
C16_Witness ==
    /\ Calculated
    /\ Returned
    /\ \E j, k \in DOMAIN Candidates :
          /\ j < k
          /\ CatalogIndex(Candidates[j].actuator) > CatalogIndex(Candidates[k].actuator)

====
